---- MODULE Spec2Model ----
(***************************************************************************)
(* A model of the go-crdt library: the replicated growable array (RGA) of  *)
(* rga.go, the grow-only counter of gcounter.go and the positive/negative  *)
(* counter built from two grow-only counters.                              *)
(*                                                                         *)
(* An RGA instance is the record [nodeID, clock, list, registry,           *)
(* pendingOrphans].  `list` is the chain of Node structs reached from      *)
(* r.root by following Next: list[1] is the root sentinel and list[i+1]    *)
(* is list[i].Next.  Every Node the code allocates is linked into that     *)
(* chain by integrate, so the chain is the whole heap of nodes.  A         *)
(* *Node pointer is the position of the node in the chain: registry[id]    *)
(* is the position of the node the map entry points to.                    *)
(***************************************************************************)
EXTENDS Integers, Sequences, FiniteSets, TLC

VARIABLES rga, net, gc, pn, jn, hist, mu, calls

vars == <<rga, net, gc, pn, jn, hist, mu, calls>>

(***************************************************************************)
(* Bounds of the model.                                                    *)
(***************************************************************************)
MaxClock == 2
MaxNodes == 3
DeliverMaxClock == 3
DeliverMaxNodes == 4
MaxTombstones == 1
MaxOrphans == 2
MaxBatch == 2
MaxCount == 3
PNMaxCount == 2

Replicas == {"alice", "bob"}
Runes == {"x", "y"}

(***************************************************************************)
(* Go compares strings bytewise; StrRank is that order on the strings the  *)
(* model uses: "" < "alice" < "bob" < "root".                              *)
(***************************************************************************)
StrRank(s) ==
  CASE s = "" -> 0
    [] s = "alice" -> 1
    [] s = "bob" -> 2
    [] s = "root" -> 3

StrGreater(a, b) == StrRank(a) > StrRank(b)

(***************************************************************************)
(* rga.go: identifiers and nodes.                                          *)
(***************************************************************************)
ID(t, n) == [Timestamp |-> t, NodeID |-> n]

\* rootID := ID{0, "root"}
rootID == ID(0, "root")

\* The zero value of ID: the ParentID of the root sentinel.
zeroID == ID(0, "")

\* A comparison that ranks by replica id first and by timestamp second.
GreaterByNode(a, b) ==
  IF a.NodeID # b.NodeID
    THEN StrGreater(a.NodeID, b.NodeID)
    ELSE a.Timestamp > b.Timestamp

Greater(a, b) ==
  IF a.Timestamp # b.Timestamp
    THEN a.Timestamp > b.Timestamp
    ELSE StrGreater(a.NodeID, b.NodeID)

\* A Node without its Next pointer, which is the node's place in `list`.
Node(id, parentID, val, deleted) ==
  [ID |-> id, ParentID |-> parentID, Value |-> val, Deleted |-> deleted]

\* rootNode := &Node{ID: rootID}: every other field has its zero value.
rootNode == Node(rootID, zeroID, "", FALSE)

EmptyMap == [k \in {} |-> <<>>]

NewRGA(nodeID) ==
  [nodeID |-> nodeID,
   clock |-> 0,
   list |-> <<rootNode>>,
   registry |-> [k \in {rootID} |-> 1],
   pendingOrphans |-> EmptyMap]

Max(a, b) == IF a > b THEN a ELSE b

InsertAt(s, k, e) == SubSeq(s, 1, k - 1) \o <<e>> \o SubSeq(s, k, Len(s))

(***************************************************************************)
(* The loop of integrate: from position k (current), the first position    *)
(* at which the scan stops; k = Len(l) + 1 stands for current == nil.      *)
(***************************************************************************)
\* The loop without its test of the current node's parent.
RECURSIVE scanAnyParent(_, _, _)
scanAnyParent(l, newNode, k) ==
  IF k > Len(l) THEN k
  ELSE IF Greater(newNode.ID, l[k].ID) THEN k
  ELSE scanAnyParent(l, newNode, k + 1)

RECURSIVE scan(_, _, _)
scan(l, newNode, k) ==
  IF k > Len(l) THEN k
  ELSE IF l[k].ParentID # newNode.ParentID THEN k
  ELSE IF Greater(newNode.ID, l[k].ID) THEN k
  ELSE scan(l, newNode, k + 1)

\* integrate that links the node and leaves the clock as it is.
integrateKeepClock(r, newNode) ==
  LET parent == r.registry[newNode.ParentID]
      k == scan(r.list, newNode, parent + 1)
      ids == DOMAIN r.registry \cup {newNode.ID}
  IN [r EXCEPT
        !.list = InsertAt(r.list, k, newNode),
        !.registry = [id \in ids |->
                        IF id = newNode.ID THEN k
                        ELSE IF r.registry[id] >= k THEN r.registry[id] + 1
                        ELSE r.registry[id]]]

\* integrate with the scan started at the root instead of at the parent.
integrateFromRoot(r, newNode) ==
  LET k == scan(r.list, newNode, 2)
      ids == DOMAIN r.registry \cup {newNode.ID}
  IN [r EXCEPT
        !.list = InsertAt(r.list, k, newNode),
        !.registry = [id \in ids |->
                        IF id = newNode.ID THEN k
                        ELSE IF r.registry[id] >= k THEN r.registry[id] + 1
                        ELSE r.registry[id]],
        !.clock = Max(r.clock, newNode.ID.Timestamp)]

(***************************************************************************)
(* integrate links newNode between prev and current, points the registry   *)
(* entry of its ID at it and advances the clock.  The caller has checked   *)
(* that the parent is in the registry (Insert does not: see RGA_Insert).   *)
(***************************************************************************)
integrate(r, newNode) ==
  LET parent == r.registry[newNode.ParentID]
      k == scan(r.list, newNode, parent + 1)
      ids == DOMAIN r.registry \cup {newNode.ID}
  IN [r EXCEPT
        !.list = InsertAt(r.list, k, newNode),
        !.registry = [id \in ids |->
                        IF id = newNode.ID THEN k
                        ELSE IF r.registry[id] >= k THEN r.registry[id] + 1
                        ELSE r.registry[id]],
        !.clock = Max(r.clock, newNode.ID.Timestamp)]

\* A drain that leaves the drained key in the buffer.
keepKey(m, id) == m

\* delete(r.pendingOrphans, id)
dropKey(m, id) == [k \in DOMAIN m \ {id} |-> m[k]]

\* A buffer write that overwrites the waiting list instead of appending.
appendOrphanReplace(m, id, n) ==
  [k \in DOMAIN m \cup {id} |-> IF k = id THEN <<n>> ELSE m[k]]

\* r.pendingOrphans[id] = append(r.pendingOrphans[id], n)
appendOrphan(m, id, n) ==
  [k \in DOMAIN m \cup {id} |->
     IF k = id
       THEN (IF id \in DOMAIN m THEN Append(m[id], n) ELSE <<n>>)
       ELSE m[k]]

RECURSIVE processNode(_, _)
RECURSIVE processOrphans(_, _, _)

\* for _, child := range orphans { r.processNode(child) }
processOrphans(r, orphans, i) ==
  IF i > Len(orphans) THEN r
  ELSE processOrphans(processNode(r, orphans[i]), orphans, i + 1)

processNode(r, n) ==
  IF n.ParentID \in DOMAIN r.registry
    THEN LET r1 == integrate(r, Node(n.ID, n.ParentID, n.Value, n.Deleted))
         IN IF n.ID \in DOMAIN r1.pendingOrphans
              THEN LET r2 == processOrphans(r1, r1.pendingOrphans[n.ID], 1)
                   IN [r2 EXCEPT !.pendingOrphans = dropKey(@, n.ID)]
              ELSE r1
    ELSE [r EXCEPT !.pendingOrphans = appendOrphan(@, n.ParentID, n)]

\* A loop body that copies the incoming flag onto a known node instead of
\* only raising it.
mergeOneAssign(r, n) ==
  IF n.ID \in DOMAIN r.registry
    THEN [r EXCEPT !.list[r.registry[n.ID]].Deleted = n.Deleted]
    ELSE processNode(r, n)

\* The body of Merge's loop for one snapshot.
mergeOne(r, n) ==
  IF n.ID \in DOMAIN r.registry
    THEN IF n.Deleted
           THEN [r EXCEPT !.list[r.registry[n.ID]].Deleted = TRUE]
           ELSE r
    ELSE processNode(r, n)

RECURSIVE mergeFrom(_, _, _)
mergeFrom(r, remoteNodes, i) ==
  IF i > Len(remoteNodes) THEN r
  ELSE mergeFrom(mergeOne(r, remoteNodes[i]), remoteNodes, i + 1)

RGA_Merge(r, remoteNodes) == mergeFrom(r, remoteNodes, 1)

(***************************************************************************)
(* Insert increments the clock and then calls integrate, which reads       *)
(* parent.Next: with parentID absent from the registry parent is nil, the  *)
(* read panics, the deferred Unlock runs and the panic reaches the caller. *)
(* All the call has done by then is r.clock++.                             *)
\* Insert that never advances the clock.
RGA_InsertNoTick(r, val, parentID) ==
  IF parentID \in DOMAIN r.registry
    THEN integrate(r, Node(ID(r.clock, r.nodeID), parentID, val, FALSE))
    ELSE r

\* Insert that builds the identifier from the clock before advancing it.
RGA_InsertStaleClock(r, val, parentID) ==
  LET r1 == [r EXCEPT !.clock = @ + 1]
      newID == ID(r.clock, r.nodeID)
  IN IF parentID \in DOMAIN r.registry
       THEN integrate(r1, Node(newID, parentID, val, FALSE))
       ELSE r1

(***************************************************************************)
RGA_Insert(r, val, parentID) ==
  LET r1 == [r EXCEPT !.clock = @ + 1]
      newID == ID(r1.clock, r.nodeID)
  IN IF parentID \in DOMAIN r.registry
       THEN integrate(r1, Node(newID, parentID, val, FALSE))
       ELSE r1

\* Delete that, for an identifier absent from the registry, tombstones the
\* snapshots of it that wait in the orphan buffer.
RGA_DeleteBuffered(r, id) ==
  IF id \in DOMAIN r.registry
    THEN [r EXCEPT !.list[r.registry[id]].Deleted = TRUE]
    ELSE LET m == r.pendingOrphans
         IN [r EXCEPT !.pendingOrphans =
               [k \in DOMAIN m |->
                  [i \in 1..Len(m[k]) |->
                     IF m[k][i].ID = id
                       THEN [m[k][i] EXCEPT !.Deleted = TRUE]
                       ELSE m[k][i]]]]

RGA_Delete(r, id) ==
  IF id \in DOMAIN r.registry
    THEN [r EXCEPT !.list[r.registry[id]].Deleted = TRUE]
    ELSE r

RECURSIVE visible(_, _)
visible(l, k) ==
  IF k > Len(l) THEN <<>>
  ELSE IF l[k].Deleted THEN visible(l, k + 1)
  ELSE <<l[k].Value>> \o visible(l, k + 1)

\* Value whose walk starts at the root sentinel itself.
RGA_ValueFromRoot(r) == visible(r.list, 1)

\* curr := r.root.Next: the walk starts at the second node of the chain.
RGA_Value(r) == visible(r.list, 2)

\* rga_test.go: the registry's nodes except the root, as a set; the order
\* in which the test's loop meets them is the map's iteration order.
getNodes(r) ==
  {r.list[r.registry[id]] : id \in {i \in DOMAIN r.registry : i.NodeID # "root"}}

(***************************************************************************)
(* gcounter.go: a GCounter is [nodeID, slots]; slots is the Go map, a      *)
(* function whose domain is the set of keys present.                       *)
(***************************************************************************)
NewGCounter(nodeID) == [nodeID |-> nodeID, slots |-> EmptyMap]

\* c.slots[id] read: the zero value for a key that is absent.
slotOf(slots, id) == IF id \in DOMAIN slots THEN slots[id] ELSE 0

\* c.slots[id] = value
setSlot(slots, id, value) ==
  [k \in DOMAIN slots \cup {id} |-> IF k = id THEN value ELSE slots[k]]

\* Increment that adds 1 to every slot the counter holds, its own included.
GCounter_IncrementAll(c) ==
  [c EXCEPT !.slots = [k \in DOMAIN c.slots \cup {c.nodeID} |-> slotOf(c.slots, k) + 1]]

\* Increment that stores 1 instead of adding 1.
GCounter_IncrementSet(c) == [c EXCEPT !.slots = setSlot(@, c.nodeID, 1)]

GCounter_Increment(c) ==
  [c EXCEPT !.slots = setSlot(@, c.nodeID, slotOf(@, c.nodeID) + 1)]

RECURSIVE sumSlots(_, _)
sumSlots(slots, keys) ==
  IF keys = {} THEN 0
  ELSE LET id == CHOOSE x \in keys : TRUE
       IN slots[id] + sumSlots(slots, keys \ {id})

GCounter_Value(c) == sumSlots(c.slots, DOMAIN c.slots)

\* for id, value := range other.slots { if value > c.slots[id] { ... } }
RECURSIVE mergeSlots(_, _, _)
mergeSlots(slots, other, keys) ==
  IF keys = {} THEN slots
  ELSE LET id == CHOOSE x \in keys : TRUE
           next == IF other[id] > slotOf(slots, id)
                     THEN setSlot(slots, id, other[id])
                     ELSE slots
       IN mergeSlots(next, other, keys \ {id})

\* Merge that copies every slot of other without comparing.
RECURSIVE copySlots(_, _, _)
copySlots(slots, other, keys) ==
  IF keys = {} THEN slots
  ELSE LET id == CHOOSE x \in keys : TRUE
       IN copySlots(setSlot(slots, id, other[id]), other, keys \ {id})

GCounter_MergeOverwrite(c, other) ==
  [c EXCEPT !.slots = copySlots(@, other.slots, DOMAIN other.slots)]

GCounter_Merge(c, other) ==
  [c EXCEPT !.slots = mergeSlots(@, other.slots, DOMAIN other.slots)]

(***************************************************************************)
(* The PNCounter (the second half of gcounter_test.go): two GCounters of   *)
(* the same nodeID.                                                        *)
(***************************************************************************)
NewPNCounter(nodeID) ==
  [pCounter |-> NewGCounter(nodeID), nCounter |-> NewGCounter(nodeID)]

PNCounter_Increment(c) == [c EXCEPT !.pCounter = GCounter_Increment(@)]

\* Decrement that bumps the increments counter.
PNCounter_DecrementWrongSide(c) == [c EXCEPT !.pCounter = GCounter_Increment(@)]

PNCounter_Decrement(c) == [c EXCEPT !.nCounter = GCounter_Increment(@)]

PNCounter_Value(c) == GCounter_Value(c.pCounter) - GCounter_Value(c.nCounter)

\* Merge that merges other's increments into both components.
PNCounter_MergeSameSide(c, other) ==
  [c EXCEPT !.pCounter = GCounter_Merge(@, other.pCounter),
            !.nCounter = GCounter_Merge(@, other.pCounter)]

PNCounter_Merge(c, other) ==
  [c EXCEPT !.pCounter = GCounter_Merge(@, other.pCounter),
            !.nCounter = GCounter_Merge(@, other.nCounter)]

(***************************************************************************)
(* Sequences over a finite set.                                            *)
(***************************************************************************)
SeqsUpTo(S, n) == UNION {[1..m -> S] : m \in 1..n}

\* The orders in which a loop over a map can meet the elements of S.
Orders(S) ==
  {f \in [1..Cardinality(S) -> S] : \A i, j \in 1..Cardinality(S) : f[i] = f[j] => i = j}

(***************************************************************************)
(* What a caller can hand to q.Merge from replica r: the snapshots in      *)
(* getNodes(r), and the snapshots taken of the same nodes before they      *)
(* were tombstoned (a node's other fields never change).                   *)
(***************************************************************************)
Snapshots(r) == getNodes(r) \cup {[n EXCEPT !.Deleted = FALSE] : n \in getNodes(r)}

Batches(r) == SeqsUpTo(Snapshots(r), MaxBatch) \cup Orders(getNodes(r))

\* Identifiers some replica holds in its registry.
KnownIDs == UNION {DOMAIN rga[p].registry : p \in Replicas}

(***************************************************************************)
(* The replicas of the sequence: Insert, Delete and Merge of every         *)
(* replica, Merge fed from another replica's registry.                     *)
(***************************************************************************)
\* The objects each specification starts from; a specification leaves the
\* objects it is not about as they are constructed.
RGAInit == rga = [p \in Replicas |-> NewRGA(p)]

NetIdle == net = {}

GCInit == gc = [p \in Replicas |-> NewGCounter(p)]

PNInit == pn = [p \in Replicas |-> NewPNCounter(p)]

JoinIdle == jn = <<>>

HistIdle == hist = <<>>

\* The zero value of sync.RWMutex: no writer, no readers.
unlocked == [writer |-> "", readers |-> {}]

\* A goroutine that is not inside a call.
idle == [op |-> "", c |-> "", other |-> "", at |-> ""]

Threads == {"t1", "t2"}

\* Every mutex unlocked and no call under way.  In the specifications whose
\* actions are whole calls, a call takes and releases its locks within the
\* action and these stay as they are.
LocksIdle ==
  /\ mu = [c \in Replicas |-> unlocked]
  /\ calls = [t \in Threads |-> idle]

Init ==
  /\ RGAInit
  /\ NetIdle
  /\ GCInit
  /\ PNInit
  /\ JoinIdle
  /\ HistIdle
  /\ LocksIdle

\* The size of the model: nodes created, tombstones and buffered snapshots.
NodeCount == Cardinality(KnownIDs \ {rootID})

Tombstones(r) == Cardinality({k \in 1..Len(r.list) : r.list[k].Deleted})

RECURSIVE SumLen(_, _)
SumLen(m, keys) ==
  IF keys = {} THEN 0
  ELSE LET k == CHOOSE x \in keys : TRUE
       IN Len(m[k]) + SumLen(m, keys \ {k})

OrphanCount(r) == SumLen(r.pendingOrphans, DOMAIN r.pendingOrphans)

Insert(p) ==
  /\ rga[p].clock < MaxClock
  /\ NodeCount < MaxNodes
  /\ \E val \in Runes, parentID \in KnownIDs :
       rga' = [rga EXCEPT ![p] = RGA_Insert(rga[p], val, parentID)]
  /\ UNCHANGED <<net, gc, pn, jn, hist, mu, calls>>

Delete(p) ==
  /\ Tombstones(rga[p]) < MaxTombstones
  /\ \E id \in KnownIDs :
       rga' = [rga EXCEPT ![p] = RGA_Delete(rga[p], id)]
  /\ UNCHANGED <<net, gc, pn, jn, hist, mu, calls>>

MergeOf(p, q, remoteNodes) ==
  /\ rga' = [rga EXCEPT ![p] = RGA_Merge(rga[p], remoteNodes)]
  /\ UNCHANGED <<net, gc, pn, jn, hist, mu, calls>>

Merge(p) ==
  \E q \in Replicas \ {p} : \E remoteNodes \in Batches(rga[q]) :
    /\ MergeOf(p, q, remoteNodes)
    /\ OrphanCount(rga'[p]) <= MaxOrphans

Next == \E p \in Replicas : Insert(p) \/ Delete(p) \/ Merge(p)

Spec == Init /\ [][Next]_vars

(***************************************************************************)
(* Replicas that synchronise as the tests do: every Merge is handed        *)
(* getNodes of the other replica, whole, in one of the orders the map      *)
(* iteration can produce.                                                  *)
(***************************************************************************)
SyncMerge(p) ==
  \E q \in Replicas \ {p} : \E remoteNodes \in Orders(getNodes(rga[q])) :
    MergeOf(p, q, remoteNodes)

SyncNext == \E p \in Replicas : Insert(p) \/ Delete(p) \/ SyncMerge(p)

SpecSync == Init /\ [][SyncNext]_vars

(***************************************************************************)
(* One replica that only receives: a set of snapshots closed under parent  *)
(* is in flight, and Merge is handed its snapshots, each once, in any      *)
(* order and in batches of any size up to MaxBatch.                        *)
(***************************************************************************)
Receiver == "bob"

DeliverIDs == {ID(t, n) : t \in 1..DeliverMaxClock, n \in Replicas}

\* A node is inserted after a node its creator already holds: the parent is
\* the root or has a smaller timestamp.
ParentChoices(ids) ==
  {f \in [ids -> ids \cup {rootID}] :
     \A i \in ids : f[i] = rootID \/ f[i].Timestamp < i.Timestamp}

\* The sets of at most maxNodes snapshots, with identifiers among universe,
\* that are closed under parent.
ClosedSets(universe, maxNodes) ==
  UNION {{{Node(i, f[i], g[i], FALSE) : i \in ids} :
            f \in ParentChoices(ids), g \in [ids -> Runes]} :
         ids \in {x \in SUBSET universe : Cardinality(x) \in 1..maxNodes}}

\* Identifiers the replica holds, in the registry or in the orphan buffer.
Buffered(r) ==
  UNION {{r.pendingOrphans[k][i].ID : i \in 1..Len(r.pendingOrphans[k])} :
         k \in DOMAIN r.pendingOrphans}

Held(r) == DOMAIN r.registry \cup Buffered(r)

Undelivered == {n \in net : n.ID \notin Held(rga[Receiver])}

DeliverInit ==
  /\ RGAInit
  /\ net \in ClosedSets(DeliverIDs, DeliverMaxNodes)
  /\ GCInit
  /\ PNInit
  /\ JoinIdle
  /\ HistIdle
  /\ LocksIdle

Deliver ==
  /\ \E remoteNodes \in SeqsUpTo(Undelivered, MaxBatch) :
       /\ \A i, j \in 1..Len(remoteNodes) : remoteNodes[i] = remoteNodes[j] => i = j
       /\ rga' = [rga EXCEPT ![Receiver] = RGA_Merge(rga[Receiver], remoteNodes)]
  /\ UNCHANGED <<net, gc, pn, jn, hist, mu, calls>>

SpecDeliver == DeliverInit /\ [][Deliver]_vars

(***************************************************************************)
(* Two grow-only counters.  hist counts the Increment calls and keeps the  *)
(* Merge calls made since the last Increment, as <<receiver, argument>>.   *)
(***************************************************************************)
CounterInit ==
  /\ RGAInit
  /\ NetIdle
  /\ GCInit
  /\ PNInit
  /\ JoinIdle
  /\ hist = [incs |-> 0, decs |-> 0, merged |-> {}]
  /\ LocksIdle

GCIncrement(p) ==
  /\ slotOf(gc[p].slots, p) < MaxCount
  /\ gc' = [gc EXCEPT ![p] = GCounter_Increment(gc[p])]
  /\ hist' = [hist EXCEPT !.incs = @ + 1, !.merged = {}]
  /\ UNCHANGED <<rga, net, pn, jn, mu, calls>>

GCMerge(p) ==
  /\ \E q \in Replicas \ {p} :
       /\ gc' = [gc EXCEPT ![p] = GCounter_Merge(gc[p], gc[q])]
       /\ hist' = [hist EXCEPT !.merged = @ \cup {<<p, q>>}]
  /\ UNCHANGED <<rga, net, pn, jn, mu, calls>>

GCNext == \E p \in Replicas : GCIncrement(p) \/ GCMerge(p)

SpecGC == CounterInit /\ [][GCNext]_vars

(***************************************************************************)
(* Two positive/negative counters, with the same history.                  *)
(***************************************************************************)
PNIncrement(p) ==
  /\ slotOf(pn[p].pCounter.slots, p) < PNMaxCount
  /\ pn' = [pn EXCEPT ![p] = PNCounter_Increment(pn[p])]
  /\ hist' = [hist EXCEPT !.incs = @ + 1, !.merged = {}]
  /\ UNCHANGED <<rga, net, gc, jn, mu, calls>>

PNDecrement(p) ==
  /\ slotOf(pn[p].nCounter.slots, p) < PNMaxCount
  /\ pn' = [pn EXCEPT ![p] = PNCounter_Decrement(pn[p])]
  /\ hist' = [hist EXCEPT !.decs = @ + 1, !.merged = {}]
  /\ UNCHANGED <<rga, net, gc, jn, mu, calls>>

PNMerge(p) ==
  /\ \E q \in Replicas \ {p} :
       /\ pn' = [pn EXCEPT ![p] = PNCounter_Merge(pn[p], pn[q])]
       /\ hist' = [hist EXCEPT !.merged = @ \cup {<<p, q>>}]
  /\ UNCHANGED <<rga, net, gc, jn, mu, calls>>

PNNext == \E p \in Replicas : PNIncrement(p) \/ PNDecrement(p) \/ PNMerge(p)

SpecPN == CounterInit /\ [][PNNext]_vars

(***************************************************************************)
(* GCounter.Merge as a function of two slot maps.  The maps are those a    *)
(* counter can hold: Increment and Merge only ever store counts >= 1.      *)
(***************************************************************************)
SlotMaps == UNION {[ids -> 1..MaxCount] : ids \in SUBSET Replicas}

\* The slots of a counter holding x after Merge with a counter holding y.
join(x, y) ==
  GCounter_Merge([nodeID |-> "alice", slots |-> x],
                 [nodeID |-> "bob", slots |-> y]).slots

JoinInit ==
  /\ RGAInit
  /\ NetIdle
  /\ GCInit
  /\ PNInit
  /\ HistIdle
  /\ LocksIdle
  /\ jn \in [a : SlotMaps, b : SlotMaps, c : SlotMaps, done : {FALSE}, out : {<<>>}]

Join ==
  /\ ~jn.done
  /\ jn' = [jn EXCEPT
              !.done = TRUE,
              !.out = [ab |-> join(jn.a, jn.b),
                       ba |-> join(jn.b, jn.a),
                       ab_c |-> join(join(jn.a, jn.b), jn.c),
                       a_bc |-> join(jn.a, join(jn.b, jn.c)),
                       aa |-> join(jn.a, jn.a)]]
  /\ UNCHANGED <<rga, net, gc, pn, hist, mu, calls>>

SpecJoin == JoinInit /\ [][Join]_vars

(***************************************************************************)
(* The grow-only counters with their locks: goroutines call Increment and  *)
(* Merge on the two counters, and a call is the sequence of its lock       *)
(* operations and its body.  calls[t] is the call goroutine t is inside    *)
(* and the statement it is at; mu[c] is the sync.RWMutex of counter c.     *)
(***************************************************************************)
LockMaxCount == 1

\* c.mu.Lock() returns once no goroutine holds the mutex.
CanLock(c) == mu[c] = unlocked

\* other.mu.RLock() returns once no writer holds the mutex or waits for it
\* (a pending Lock blocks new readers).
CanRLock(c) ==
  /\ mu[c].writer = ""
  /\ \A u \in Threads : ~(calls[u].at = "Lock" /\ calls[u].c = c)

CallIncrement(t) ==
  /\ calls[t] = idle
  /\ \E c \in Replicas :
       /\ slotOf(gc[c].slots, c) < LockMaxCount
       /\ calls' = [calls EXCEPT ![t] = [op |-> "Increment", c |-> c, other |-> "", at |-> "Lock"]]
  /\ UNCHANGED <<rga, net, gc, pn, jn, hist, mu>>

CallMerge(t) ==
  /\ calls[t] = idle
  /\ \E c \in Replicas, other \in Replicas :
       calls' = [calls EXCEPT ![t] = [op |-> "Merge", c |-> c, other |-> other, at |-> "Lock"]]
  /\ UNCHANGED <<rga, net, gc, pn, jn, hist, mu>>

\* c.mu.Lock(), the first statement of Increment and of Merge.
Lock(t) ==
  /\ calls[t].at = "Lock"
  /\ CanLock(calls[t].c)
  /\ mu' = [mu EXCEPT ![calls[t].c].writer = t]
  /\ calls' = [calls EXCEPT ![t].at = IF calls[t].op = "Merge" THEN "RLock" ELSE "Body"]
  /\ UNCHANGED <<rga, net, gc, pn, jn, hist>>

\* other.mu.RLock(), taken by Merge while it holds c.mu.
RLock(t) ==
  /\ calls[t].at = "RLock"
  /\ CanRLock(calls[t].other)
  /\ mu' = [mu EXCEPT ![calls[t].other].readers = @ \cup {t}]
  /\ calls' = [calls EXCEPT ![t].at = "Body"]
  /\ UNCHANGED <<rga, net, gc, pn, jn, hist>>

IncrementBody(t) ==
  /\ calls[t].op = "Increment"
  /\ calls[t].at = "Body"
  /\ gc' = [gc EXCEPT ![calls[t].c] = GCounter_Increment(gc[calls[t].c])]
  /\ calls' = [calls EXCEPT ![t].at = "Unlock"]
  /\ UNCHANGED <<rga, net, pn, jn, hist, mu>>

MergeBody(t) ==
  /\ calls[t].op = "Merge"
  /\ calls[t].at = "Body"
  /\ gc' = [gc EXCEPT ![calls[t].c] = GCounter_Merge(gc[calls[t].c], gc[calls[t].other])]
  /\ calls' = [calls EXCEPT ![t].at = "RUnlock"]
  /\ UNCHANGED <<rga, net, pn, jn, hist, mu>>

\* The deferred calls run last in, first out: other.mu.RUnlock() ...
RUnlock(t) ==
  /\ calls[t].at = "RUnlock"
  /\ mu' = [mu EXCEPT ![calls[t].other].readers = @ \ {t}]
  /\ calls' = [calls EXCEPT ![t].at = "Unlock"]
  /\ UNCHANGED <<rga, net, gc, pn, jn, hist>>

\* ... and then c.mu.Unlock(), after which the call has returned.
Unlock(t) ==
  /\ calls[t].at = "Unlock"
  /\ mu' = [mu EXCEPT ![calls[t].c].writer = ""]
  /\ calls' = [calls EXCEPT ![t] = idle]
  /\ UNCHANGED <<rga, net, gc, pn, jn, hist>>

LockNext ==
  \E t \in Threads :
    \/ CallIncrement(t)
    \/ CallMerge(t)
    \/ Lock(t)
    \/ RLock(t)
    \/ IncrementBody(t)
    \/ MergeBody(t)
    \/ RUnlock(t)
    \/ Unlock(t)

SpecLock == Init /\ [][LockNext]_vars

(***************************************************************************)
(* The positive/negative counters under concurrent callers.  A PNCounter   *)
(* has no mutex of its own: Value and Merge are two calls on the two       *)
(* GCounters, each atomic under that GCounter's lock, and other calls can  *)
(* run in between.  calls[t] is the Value or Merge call goroutine t is     *)
(* inside and the component it is about to use; Increment and Decrement    *)
(* are one locked call each.  hist[t] is what the call has read so far     *)
(* (pv, ret), the Value()s the counter has held since the call began       *)
(* (seen), and whether a Merge changed the increments (half).              *)
(***************************************************************************)
PNConcMaxCount == 1

noObs == [pv |-> 0, ret |-> 0, seen |-> {}, half |-> FALSE]

PNConcInit ==
  /\ RGAInit
  /\ NetIdle
  /\ GCInit
  /\ PNInit
  /\ JoinIdle
  /\ LocksIdle
  /\ hist = [t \in Threads |-> noObs]

\* Every Value call under way on a counter notes the value the counter has
\* after a write.
Observe(h, newpn) ==
  [t \in Threads |->
     IF calls[t].op = "Value"
       THEN [h[t] EXCEPT !.seen = @ \cup {PNCounter_Value(newpn[calls[t].c])}]
       ELSE h[t]]

ConcIncrement(c) ==
  /\ slotOf(pn[c].pCounter.slots, c) < PNConcMaxCount
  /\ pn' = [pn EXCEPT ![c] = PNCounter_Increment(pn[c])]
  /\ hist' = Observe(hist, pn')
  /\ UNCHANGED <<rga, net, gc, jn, mu, calls>>

ConcDecrement(c) ==
  /\ slotOf(pn[c].nCounter.slots, c) < PNConcMaxCount
  /\ pn' = [pn EXCEPT ![c] = PNCounter_Decrement(pn[c])]
  /\ hist' = Observe(hist, pn')
  /\ UNCHANGED <<rga, net, gc, jn, mu, calls>>

CallValue(t) ==
  /\ calls[t] = idle
  /\ \E c \in Replicas :
       /\ calls' = [calls EXCEPT ![t] = [op |-> "Value", c |-> c, other |-> "", at |-> "pCounter"]]
       /\ hist' = [hist EXCEPT ![t] = [noObs EXCEPT !.seen = {PNCounter_Value(pn[c])}]]
  /\ UNCHANGED <<rga, net, gc, pn, jn, mu>>

\* c.pCounter.Value()
ValueP(t) ==
  /\ calls[t].op = "Value"
  /\ calls[t].at = "pCounter"
  /\ hist' = [hist EXCEPT ![t].pv = GCounter_Value(pn[calls[t].c].pCounter)]
  /\ calls' = [calls EXCEPT ![t].at = "nCounter"]
  /\ UNCHANGED <<rga, net, gc, pn, jn, mu>>

\* ... - c.nCounter.Value()
ValueN(t) ==
  /\ calls[t].op = "Value"
  /\ calls[t].at = "nCounter"
  /\ hist' = [hist EXCEPT ![t].ret = hist[t].pv - GCounter_Value(pn[calls[t].c].nCounter)]
  /\ calls' = [calls EXCEPT ![t].at = "Return"]
  /\ UNCHANGED <<rga, net, gc, pn, jn, mu>>

CallPNMerge(t) ==
  /\ calls[t] = idle
  /\ \E c \in Replicas : \E other \in Replicas \ {c} :
       calls' = [calls EXCEPT ![t] = [op |-> "Merge", c |-> c, other |-> other, at |-> "pCounter"]]
  /\ hist' = [hist EXCEPT ![t] = noObs]
  /\ UNCHANGED <<rga, net, gc, pn, jn, mu>>

\* c.pCounter.Merge(other.pCounter)
MergeP(t) ==
  /\ calls[t].op = "Merge"
  /\ calls[t].at = "pCounter"
  /\ pn' = [pn EXCEPT ![calls[t].c].pCounter = GCounter_Merge(@, pn[calls[t].other].pCounter)]
  /\ hist' = [Observe(hist, pn') EXCEPT ![t].half = (pn'[calls[t].c] # pn[calls[t].c])]
  /\ calls' = [calls EXCEPT ![t].at = "nCounter"]
  /\ UNCHANGED <<rga, net, gc, jn, mu>>

\* c.nCounter.Merge(other.nCounter)
MergeN(t) ==
  /\ calls[t].op = "Merge"
  /\ calls[t].at = "nCounter"
  /\ pn' = [pn EXCEPT ![calls[t].c].nCounter = GCounter_Merge(@, pn[calls[t].other].nCounter)]
  /\ hist' = Observe(hist, pn')
  /\ calls' = [calls EXCEPT ![t].at = "Return"]
  /\ UNCHANGED <<rga, net, gc, jn, mu>>

Return(t) ==
  /\ calls[t].at = "Return"
  /\ calls' = [calls EXCEPT ![t] = idle]
  /\ hist' = [hist EXCEPT ![t] = noObs]
  /\ UNCHANGED <<rga, net, gc, pn, jn, mu>>

PNConcNext ==
  \/ \E c \in Replicas : ConcIncrement(c) \/ ConcDecrement(c)
  \/ \E t \in Threads :
       \/ CallValue(t)
       \/ ValueP(t)
       \/ ValueN(t)
       \/ CallPNMerge(t)
       \/ MergeP(t)
       \/ MergeN(t)
       \/ Return(t)

SpecPNConc == PNConcInit /\ [][PNConcNext]_vars

(***************************************************************************)
(* Properties.                                                             *)
(***************************************************************************)
IDsOf(r) == DOMAIN r.registry

\* The identifiers whose registry node is tombstoned.
TombstonedIDs(r) == {id \in DOMAIN r.registry : r.list[r.registry[id]].Deleted}

\* The identifiers met by walking Next from the root, in order.
Traversal(r) == [k \in 1..Len(r.list) |-> r.list[k].ID]

SameUpdates(a, b) ==
  /\ IDsOf(a) = IDsOf(b)
  /\ TombstonedIDs(a) = TombstonedIDs(b)
  /\ a.pendingOrphans = EmptyMap
  /\ b.pendingOrphans = EmptyMap

(***************************************************************************)
(* C1. RGA convergence: two replicas that insert and delete locally and    *)
(* merge each other's whole registry content report the same Value()       *)
(* whenever their registries hold the same identifiers (with the same      *)
(* tombstones) and their orphan buffers are empty.                         *)
(***************************************************************************)
C1_Convergence ==
  \A p, q \in Replicas :
    SameUpdates(rga[p], rga[q]) => RGA_Value(rga[p]) = RGA_Value(rga[q])

(***************************************************************************)
(* C2. Delivery-order independence: a replica that has received every      *)
(* snapshot of a parent-closed set, once each, in any order and any        *)
(* batching, has the traversal and the Value() that one fixed delivery     *)
(* (the whole set in one batch, in ascending identifier order) produces.   *)
(***************************************************************************)
RECURSIVE Ascending(_)
Ascending(S) ==
  IF S = {} THEN <<>>
  ELSE LET m == CHOOSE n \in S : \A o \in S \ {n} : Greater(o.ID, n.ID)
       IN <<m>> \o Ascending(S \ {m})

Reference(S) == RGA_Merge(NewRGA(Receiver), Ascending(S))

ReceivedAll == {n.ID : n \in net} \subseteq DOMAIN rga[Receiver].registry

C2_OrderIndependence ==
  ReceivedAll =>
    /\ rga[Receiver].list = Reference(net).list
    /\ RGA_Value(rga[Receiver]) = RGA_Value(Reference(net))

(***************************************************************************)
(* C3. Merge is idempotent under duplicate delivery: in every reachable    *)
(* state, for snapshots b and c of another replica, merging b twice and    *)
(* then c leaves the registry, the traversal and Value() as merging b      *)
(* once and then c does (c may be the parent b was waiting for).           *)
(***************************************************************************)
SameView(a, b) ==
  /\ IDsOf(a) = IDsOf(b)
  /\ a.list = b.list
  /\ RGA_Value(a) = RGA_Value(b)

C3_MergeIdempotent ==
  \A p \in Replicas : \A q \in Replicas \ {p} :
    \A b, c \in SeqsUpTo(Snapshots(rga[q]), 1) :
      LET once == RGA_Merge(rga[p], b)
          twice == RGA_Merge(once, b)
      IN SameView(RGA_Merge(once, c), RGA_Merge(twice, c))

(***************************************************************************)
(* C4. Causal ordering: in every reachable state of every replica, every   *)
(* non-root node of the traversal comes after a node carrying its parent   *)
(* identifier, the parent of every node of the traversal is in the         *)
(* registry, a snapshot waiting in the orphan buffer is not in the         *)
(* traversal, and no snapshot is still waiting once its parent is in the   *)
(* registry.                                                               *)
(***************************************************************************)
ParentBeforeChild(r) ==
  \A k \in 2..Len(r.list) :
    /\ r.list[k].ParentID \in DOMAIN r.registry
    /\ \E j \in 1..(k - 1) : r.list[j].ID = r.list[k].ParentID

OrphansInvisible(r) ==
  /\ \A id \in Buffered(r) : \A k \in 1..Len(r.list) : r.list[k].ID # id
  /\ \A key \in DOMAIN r.pendingOrphans : key \notin DOMAIN r.registry

C4_CausalOrder ==
  \A p \in Replicas : ParentBeforeChild(rga[p]) /\ OrphansInvisible(rga[p])

\* A replica with a visible node in its traversal while a snapshot that was
\* merged before its parent waits in the orphan buffer.
C4_Witness ==
  \E p \in Replicas :
    /\ rga[p].pendingOrphans # EmptyMap
    /\ RGA_Value(rga[p]) # <<>>

(***************************************************************************)
(* C5. Tombstone propagation: whenever replica p merges the whole          *)
(* registry content of replica q, in any order, every node tombstoned in   *)
(* q is afterwards in p's registry with deleted = true, no node of p's     *)
(* traversal with that identifier is visible, and an Insert after it       *)
(* links a new node.                                                       *)
(***************************************************************************)
Hidden(r, id) ==
  /\ id \in DOMAIN r.registry
  /\ r.list[r.registry[id]].Deleted
  /\ \A k \in 1..Len(r.list) : r.list[k].ID = id => r.list[k].Deleted
  /\ \A val \in Runes : Len(RGA_Insert(r, val, id).list) = Len(r.list) + 1

C5_TombstonePropagation ==
  [][\A p \in Replicas : \A q \in Replicas \ {p} :
       \A remoteNodes \in Orders(getNodes(rga[q])) :
         rga' = [rga EXCEPT ![p] = RGA_Merge(rga[p], remoteNodes)]
           => \A n \in getNodes(rga[q]) : n.Deleted => Hidden(rga'[p], n.ID)]_vars

(***************************************************************************)
(* C6. Tie-break determinism: in every reachable state, two nodes of the   *)
(* traversal that share a parent appear in descending identifier rank.     *)
(***************************************************************************)
SiblingsDescending(r) ==
  \A i, j \in 2..Len(r.list) :
    (i < j /\ r.list[i].ParentID = r.list[j].ParentID)
      => Greater(r.list[i].ID, r.list[j].ID)

C6_SiblingsDescending == \A p \in Replicas : SiblingsDescending(rga[p])

(***************************************************************************)
(* C7. Delete is a logical deletion: a Delete of an identifier of the      *)
(* registry changes nothing but the deleted flag of that registry node,    *)
(* after it no node with that identifier is visible in the traversal, and  *)
(* no step of any replica removes a registry key.                          *)
(***************************************************************************)
OnlyFlagged(r, s, id) ==
  /\ DOMAIN s.registry = DOMAIN r.registry
  /\ s.registry = r.registry
  /\ s.clock = r.clock
  /\ s.pendingOrphans = r.pendingOrphans
  /\ Traversal(s) = Traversal(r)
  /\ s.list = [r.list EXCEPT ![r.registry[id]].Deleted = TRUE]
  /\ \A k \in 1..Len(s.list) : s.list[k].ID = id => s.list[k].Deleted

C7_LogicalDelete ==
  [][/\ \A p \in Replicas : DOMAIN rga[p].registry \subseteq DOMAIN rga'[p].registry
     /\ \A p \in Replicas : \A id \in DOMAIN rga[p].registry :
          rga' = [rga EXCEPT ![p] = RGA_Delete(rga[p], id)]
            => OnlyFlagged(rga[p], rga'[p], id)]_vars

(***************************************************************************)
(* C8. GCounter.Merge is the slot-wise maximum and a semilattice join: for *)
(* all slot maps a, b, c the merge of a and b has, for every replica id,   *)
(* the larger of the two counts (absent = 0), and merge is commutative,    *)
(* associative and idempotent.                                             *)
(***************************************************************************)
C8_MergeIsJoin ==
  jn.done =>
    /\ \A id \in Replicas :
         slotOf(jn.out.ab, id) = Max(slotOf(jn.a, id), slotOf(jn.b, id))
    /\ DOMAIN jn.out.ab = DOMAIN jn.a \cup DOMAIN jn.b
    /\ jn.out.ab = jn.out.ba
    /\ jn.out.ab_c = jn.out.a_bc
    /\ jn.out.aa = jn.a

\* Merged maps of which each holds a larger count than the other.
C8_Witness ==
  /\ jn.done
  /\ slotOf(jn.a, "alice") > slotOf(jn.b, "alice")
  /\ slotOf(jn.b, "bob") > slotOf(jn.a, "bob")
  /\ slotOf(jn.c, "bob") > slotOf(jn.b, "bob")

(***************************************************************************)
(* C9. GCounter convergence: once each of the two counters has merged the  *)
(* other since the last Increment, both report the total number of         *)
(* Increment calls, and they go on doing so under any further Merge.       *)
(***************************************************************************)
CrossMerged == \A p, q \in Replicas : p # q => <<p, q>> \in hist.merged

C9_GCounterConvergence ==
  CrossMerged => \A p \in Replicas : GCounter_Value(gc[p]) = hist.incs

\* Both counters were incremented, alice twice and bob once as in the test.
C9_Witness ==
  /\ CrossMerged
  /\ slotOf(gc["alice"].slots, "alice") = 2
  /\ slotOf(gc["bob"].slots, "bob") = 1
  /\ GCounter_Value(gc["bob"]) = 3

(***************************************************************************)
(* C10. PNCounter value and convergence: in every reachable state Value()  *)
(* is the sum of the increments slots minus the sum of the decrements      *)
(* slots, and once each counter has merged the other since the last        *)
(* Increment or Decrement both report (Increment calls) - (Decrement       *)
(* calls).                                                                 *)
(***************************************************************************)
RECURSIVE SlotTotal(_, _)
SlotTotal(slots, ids) ==
  IF ids = {} THEN 0
  ELSE LET id == CHOOSE x \in ids : TRUE
       IN slotOf(slots, id) + SlotTotal(slots, ids \ {id})

C10_PNCounterValue ==
  /\ \A p \in Replicas :
       PNCounter_Value(pn[p]) =
         SlotTotal(pn[p].pCounter.slots, Replicas) - SlotTotal(pn[p].nCounter.slots, Replicas)
  /\ CrossMerged =>
       \A p \in Replicas : PNCounter_Value(pn[p]) = hist.incs - hist.decs

\* alice incremented once, bob decremented once, both merged: the test.
C10_Witness ==
  /\ CrossMerged
  /\ hist.incs = 1
  /\ hist.decs = 1
  /\ slotOf(pn["alice"].pCounter.slots, "alice") = 1
  /\ slotOf(pn["bob"].nCounter.slots, "bob") = 1
  /\ PNCounter_Value(pn["alice"]) = 0

(***************************************************************************)
(* C11. Insert with an unknown parent performs no mutation: in every       *)
(* reachable state, for every identifier some replica holds and replica p  *)
(* does not, p.Insert(val, parentID) leaves p's clock, registry, traversal *)
(* and orphan buffer as they were.                                         *)
(***************************************************************************)
AbsentParents(p) == KnownIDs \ DOMAIN rga[p].registry

C11_InsertUnknownParent ==
  \A p \in Replicas : \A parentID \in AbsentParents(p) : \A val \in Runes :
    RGA_Insert(rga[p], val, parentID) = rga[p]

(***************************************************************************)
(* C12. Two-way simultaneous merge does not deadlock: no state is          *)
(* reachable in which one goroutine inside A.Merge(B) and another inside   *)
(* B.Merge(A), A and B different counters, each hold the write lock of     *)
(* their own counter while waiting for the lock of the other.              *)
(***************************************************************************)
HoldsAndWaits(t) ==
  /\ calls[t].op = "Merge"
  /\ calls[t].c # calls[t].other
  /\ mu[calls[t].c].writer = t
  /\ calls[t].at = "RLock"
  /\ ~CanRLock(calls[t].other)

C12_NoMergeDeadlock ==
  \A s, t \in Threads :
    (s # t /\ calls[s].c = calls[t].other /\ calls[s].other = calls[t].c)
      => ~(HoldsAndWaits(s) /\ HoldsAndWaits(t))

(***************************************************************************)
(* C13. Delete of an unknown identifier is a silent no-op: in every        *)
(* reachable state, for every identifier that is not a key of replica      *)
(* p's registry (one another replica holds, or one that only waits in p's  *)
(* orphan buffer), p.Delete(id) leaves registry, deleted flags, traversal, *)
(* clock and orphan buffer as they were.                                   *)
(***************************************************************************)
AbsentIDs(r) == (KnownIDs \cup Buffered(r)) \ DOMAIN r.registry

C13_DeleteAbsentNoOp ==
  \A p \in Replicas : \A id \in AbsentIDs(rga[p]) :
    RGA_Delete(rga[p], id) = rga[p]

\* Delete can be called with an identifier that only waits in the orphan
\* buffer of the replica.
C13_Witness ==
  \E p \in Replicas :
    /\ Tombstones(rga[p]) < MaxTombstones
    /\ \E id \in Buffered(rga[p]) \cap KnownIDs : id \notin DOMAIN rga[p].registry

(***************************************************************************)
(* C14. Value() is the visible sequence: in every reachable state the      *)
(* result of Value() has one element for each node of the chain after the  *)
(* root whose deleted flag is false, the i-th element being the payload    *)
(* of the i-th such node in link order; the root is never emitted.         *)
(***************************************************************************)
Live(r) == {k \in 2..Len(r.list) : ~r.list[k].Deleted}

\* The i-th position of Live(r), counted in link order.
NthLive(r, i) == CHOOSE k \in Live(r) : Cardinality({j \in Live(r) : j <= k}) = i

Payloads(r) == [i \in 1..Cardinality(Live(r)) |-> r.list[NthLive(r, i)].Value]

C14_ValueIsVisiblePayloads ==
  \A p \in Replicas : RGA_Value(rga[p]) = Payloads(rga[p])

\* A replica whose chain has a tombstoned node between two visible ones.
C14_Witness ==
  \E p \in Replicas : \E i, j, k \in 2..Len(rga[p].list) :
    /\ i < j
    /\ j < k
    /\ ~rga[p].list[i].Deleted
    /\ rga[p].list[j].Deleted
    /\ ~rga[p].list[k].Deleted
    /\ Len(RGA_Value(rga[p])) = 2

(***************************************************************************)
(* C16. Registry/traversal agreement: in every reachable state in which a  *)
(* replica's orphan buffer is empty, the identifiers met by walking Next   *)
(* from the root are exactly the registry keys, and every node of the      *)
(* walk is the node the registry holds for its identifier.                 *)
(***************************************************************************)
RegistryIsTraversal(r) ==
  /\ {r.list[k].ID : k \in 1..Len(r.list)} = DOMAIN r.registry
  /\ \A k \in 1..Len(r.list) : r.registry[r.list[k].ID] = k

C16_RegistryTraversalAgreement ==
  \A p \in Replicas :
    rga[p].pendingOrphans = EmptyMap => RegistryIsTraversal(rga[p])

(***************************************************************************)
(* C17. No identifier occurs twice in the traversal: in every reachable    *)
(* state of every replica (after Insert, Delete and Merge calls whose      *)
(* batches may repeat snapshots and deliver children before parents) the   *)
(* nodes of the chain have pairwise different identifiers and the chain    *)
(* is as long as the registry is large.                                    *)
(***************************************************************************)
NoDuplicateIDs(r) ==
  /\ \A i, j \in 1..Len(r.list) : r.list[i].ID = r.list[j].ID => i = j
  /\ Len(r.list) = Cardinality(DOMAIN r.registry)

C17_NoDuplicateIDs == \A p \in Replicas : NoDuplicateIDs(rga[p])

(***************************************************************************)
(* C18. Orphan-buffer invariant: in every reachable state (that is, after  *)
(* every completed Insert, Delete or Merge) no key of a replica's orphan   *)
(* buffer is a key of its registry, and every snapshot in the buffer is    *)
(* stored under the key equal to its own parent identifier.                *)
(***************************************************************************)
KeyedByParent(r) ==
  \A key \in DOMAIN r.pendingOrphans :
    /\ key \notin DOMAIN r.registry
    /\ \A i \in 1..Len(r.pendingOrphans[key]) : r.pendingOrphans[key][i].ParentID = key

C18_OrphanBufferInvariant == \A p \in Replicas : KeyedByParent(rga[p])

\* A replica that has inserted a node of its own, tombstoned a node and
\* merged twice, with two snapshots waiting in its orphan buffer.
C18_Witness ==
  \E p \in Replicas :
    /\ OrphanCount(rga[p]) = 2
    /\ Tombstones(rga[p]) = 1
    /\ \E id \in DOMAIN rga[p].registry : id.NodeID = p

(***************************************************************************)
(* C19. No snapshot is dropped by Merge: after every Merge of a batch      *)
(* into the receiver, each snapshot handed to it so far (in this batch or  *)
(* an earlier one) whose ancestors have all been handed over too is a      *)
(* node of the registry and of the traversal and neither it nor a key      *)
(* equal to its identifier is left in the orphan buffer; every other       *)
(* snapshot handed over waits in the orphan buffer under its parent        *)
(* identifier.                                                             *)
(***************************************************************************)
\* The snapshot of net with identifier id.
Sent(id) == CHOOSE n \in net : n.ID = id

RECURSIVE AncestorsIn(_, _)
AncestorsIn(n, given) ==
  \/ n.ParentID = rootID
  \/ /\ n.ParentID \in given
     /\ AncestorsIn(Sent(n.ParentID), given)

Integrated(r, n) ==
  /\ n.ID \in DOMAIN r.registry
  /\ r.list[r.registry[n.ID]] = n
  /\ n.ID \notin DOMAIN r.pendingOrphans
  /\ n.ID \notin Buffered(r)

Waiting(r, n) ==
  /\ n.ID \notin DOMAIN r.registry
  /\ n.ParentID \in DOMAIN r.pendingOrphans
  /\ \E i \in 1..Len(r.pendingOrphans[n.ParentID]) : r.pendingOrphans[n.ParentID][i] = n

Kept(r, given) ==
  \A n \in net :
    n.ID \in given => IF AncestorsIn(n, given) THEN Integrated(r, n) ELSE Waiting(r, n)

BatchIDs(remoteNodes) == {remoteNodes[i].ID : i \in 1..Len(remoteNodes)}

C19_NoSnapshotDropped ==
  [][\A remoteNodes \in SeqsUpTo(Undelivered, MaxBatch) :
       rga' = [rga EXCEPT ![Receiver] = RGA_Merge(rga[Receiver], remoteNodes)]
         => Kept(rga'[Receiver], Held(rga[Receiver]) \cup BatchIDs(remoteNodes))]_vars

\* The receiver holds a snapshot and a child of that snapshot in its orphan
\* buffer while their common ancestor is still to come, and has integrated
\* another node already.
C19_Witness ==
  /\ Len(rga[Receiver].list) > 1
  /\ \E key \in DOMAIN rga[Receiver].pendingOrphans : key \in Buffered(rga[Receiver])
  /\ Undelivered # {}

(***************************************************************************)
(* C20. Tombstones are monotonic: on every step (an Insert, a Delete or a  *)
(* Merge of any batch, stale snapshots with deleted = false included) a    *)
(* registry node whose deleted flag is true keeps it true; and in every    *)
(* state, merging one snapshot of an identifier the replica knows sets     *)
(* the flag of the registry node to (local OR remote) and changes nothing  *)
(* else.                                                                   *)
(***************************************************************************)
Flag(r, id) == r.list[r.registry[id]].Deleted

FlagsStay(r, s) ==
  \A id \in DOMAIN r.registry :
    Flag(r, id) => (id \in DOMAIN s.registry /\ Flag(s, id))

KnownMergeIsOr(r, n) ==
  RGA_Merge(r, <<n>>) = [r EXCEPT !.list[r.registry[n.ID]].Deleted = @ \/ n.Deleted]

C20_TombstonesMonotonic ==
  [][/\ \A p \in Replicas : FlagsStay(rga[p], rga'[p])
     /\ \A p \in Replicas : \A q \in Replicas \ {p} : \A n \in Snapshots(rga[q]) :
          n.ID \in DOMAIN rga[p].registry => KnownMergeIsOr(rga[p], n)]_vars

\* A replica holds a tombstoned node of which the other replica still
\* holds a copy with deleted = false.
C20_Witness ==
  \E p \in Replicas : \E q \in Replicas \ {p} :
    \E id \in TombstonedIDs(rga[p]) \cap DOMAIN rga[q].registry :
      /\ id # rootID
      /\ ~Flag(rga[q], id)

(***************************************************************************)
(* C21. The root sentinel: in every reachable state of every replica the   *)
(* identifier (0, "root") is a key of the registry, its node is the head   *)
(* of the traversal, has the zero parent, and its deleted flag is false.   *)
(***************************************************************************)
RootIntact(r) ==
  /\ rootID \in DOMAIN r.registry
  /\ r.registry[rootID] = 1
  /\ r.list[1].ID = rootID
  /\ r.list[1].ParentID = zeroID
  /\ ~r.list[1].Deleted

C21_RootNeverTombstoned == \A p \in Replicas : RootIntact(rga[p])

(***************************************************************************)
(* C22. Local clock invariant: no step decreases a replica's clock; after  *)
(* every step the clock is at least the timestamp of every node of the     *)
(* registry; and a step that adds a node of the replica's own (a           *)
(* successful Insert) leaves the clock exactly one higher, the new node    *)
(* carrying that clock value as its timestamp.                             *)
(***************************************************************************)
ClockCovers(r) == \A id \in DOMAIN r.registry : r.clock >= id.Timestamp

\* The identifiers of its own that replica s holds and r did not.
OwnNew(r, s) == {id \in DOMAIN s.registry \ DOMAIN r.registry : id.NodeID = r.nodeID}

InsertTicks(r, s) ==
  \A id \in OwnNew(r, s) : s.clock = r.clock + 1 /\ id.Timestamp = s.clock

C22_ClockInvariant ==
  [][\A p \in Replicas :
       /\ rga'[p].clock >= rga[p].clock
       /\ ClockCovers(rga'[p])
       /\ InsertTicks(rga[p], rga'[p])]_vars

\* A replica whose clock a Merge advanced before its first Insert: its own
\* first node has timestamp 2.
C22_Witness ==
  \E p \in Replicas :
    /\ ID(2, p) \in DOMAIN rga[p].registry
    /\ ID(1, p) \notin DOMAIN rga[p].registry
    /\ rga[p].clock = 2

(***************************************************************************)
(* C23. Fresh identifiers: in every reachable state, an Insert by replica  *)
(* p after a parent of its registry creates the node (clock + 1, p), with  *)
(* the given payload and parent; that identifier is not yet a key of p's   *)
(* registry, and no replica holds, in registry or orphan buffer, an        *)
(* identifier of p with a timestamp above p's clock, so no later Insert    *)
(* can return an identifier returned before.                               *)
(***************************************************************************)
ReturnsFresh(r) ==
  \A val \in Runes : \A parentID \in DOMAIN r.registry :
    LET s == RGA_Insert(r, val, parentID)
        newID == ID(r.clock + 1, r.nodeID)
    IN /\ newID \notin DOMAIN r.registry
       /\ DOMAIN s.registry = DOMAIN r.registry \cup {newID}
       /\ s.list[s.registry[newID]] = Node(newID, parentID, val, FALSE)

NeverIssuedAhead(p) ==
  \A q \in Replicas : \A id \in Held(rga[q]) :
    id.NodeID = p => id.Timestamp <= rga[p].clock

C23_FreshIdentifiers ==
  \A p \in Replicas : ReturnsFresh(rga[p]) /\ NeverIssuedAhead(p)

\* A replica has inserted twice, and the other replica holds both of its
\* nodes.
C23_Witness ==
  \E p \in Replicas : \E q \in Replicas \ {p} :
    /\ {ID(1, p), ID(2, p)} \subseteq DOMAIN rga[p].registry
    /\ {ID(1, p), ID(2, p)} \subseteq DOMAIN rga[q].registry

(***************************************************************************)
(* C24. Integration placement: in every reachable state, integrating a     *)
(* node n whose parent is in the registry (a new local node, or a          *)
(* snapshot of the other replica not yet known) links n after its parent,  *)
(* every node between the parent and n being a sibling of n that n does    *)
(* not outrank; the node after n, if any, has another parent or is         *)
(* outranked by n; and the nodes linked before keep their relative order.  *)
(***************************************************************************)
RemoveAt(s, k) == SubSeq(s, 1, k - 1) \o SubSeq(s, k + 1, Len(s))

PlacedByRule(r, n) ==
  LET s == integrate(r, n)
      par == r.registry[n.ParentID]
      k == s.registry[n.ID]
  IN /\ k > par
     /\ s.list[k] = n
     /\ s.list[par].ID = n.ParentID
     /\ \A j \in (par + 1)..(k - 1) :
          /\ s.list[j].ParentID = n.ParentID
          /\ ~Greater(n.ID, s.list[j].ID)
     /\ \/ k = Len(s.list)
        \/ s.list[k + 1].ParentID # n.ParentID
        \/ Greater(n.ID, s.list[k + 1].ID)
     /\ RemoveAt(s.list, k) = r.list

\* The nodes replica p can be asked to integrate next.
Integrable(p) ==
  {Node(ID(rga[p].clock + 1, p), parentID, val, FALSE) :
     parentID \in DOMAIN rga[p].registry, val \in Runes}
  \cup {n \in UNION {getNodes(rga[q]) : q \in Replicas \ {p}} :
          n.ID \notin DOMAIN rga[p].registry /\ n.ParentID \in DOMAIN rga[p].registry}

C24_IntegrationPlacement ==
  \A p \in Replicas : \A n \in Integrable(p) : PlacedByRule(rga[p], n)

\* A snapshot that is integrated behind a sibling that outranks it, not
\* directly after its parent.
C24_Witness ==
  \E p \in Replicas : \E n \in Integrable(p) :
    /\ n.ID.NodeID # p
    /\ integrate(rga[p], n).registry[n.ID] > rga[p].registry[n.ParentID] + 1

(***************************************************************************)
(* C25. Placement of a local Insert: in every reachable state,             *)
(* Insert(val, parentID) with parentID in the registry links the new node  *)
(* directly after the registry's node of parentID, and Value() after the   *)
(* call is Value() before it with val inserted directly after the visible  *)
(* payloads up to and including the parent's (at the front when the        *)
(* parent is the root).                                                    *)
(***************************************************************************)
VisibleUpTo(r, k) == Cardinality({j \in 2..k : ~r.list[j].Deleted})

DirectlyAfterParent(r, val, parentID) ==
  LET s == RGA_Insert(r, val, parentID)
      par == r.registry[parentID]
      newNode == Node(ID(r.clock + 1, r.nodeID), parentID, val, FALSE)
  IN /\ s.list = InsertAt(r.list, par + 1, newNode)
     /\ s.registry[newNode.ID] = par + 1
     /\ RGA_Value(s) = InsertAt(RGA_Value(r), VisibleUpTo(r, par) + 1, val)

C25_LocalInsertAfterParent ==
  \A p \in Replicas : \A val \in Runes : \A parentID \in DOMAIN rga[p].registry :
    DirectlyAfterParent(rga[p], val, parentID)

\* A replica can insert after a parent that already has a child created by
\* the other replica.
C25_Witness ==
  \E p \in Replicas : \E parentID \in DOMAIN rga[p].registry :
    /\ rga[p].clock < MaxClock
    /\ NodeCount < MaxNodes
    /\ ~Flag(rga[p], parentID)
    /\ \E k \in 2..Len(rga[p].list) :
         /\ rga[p].list[k].ParentID = parentID
         /\ rga[p].list[k].ID.NodeID # p

(***************************************************************************)
(* C26. Lamport causality of identifiers: in every reachable state every   *)
(* non-root node of a replica's chain, and every snapshot waiting in its   *)
(* orphan buffer, has a timestamp strictly greater than the timestamp of   *)
(* its parent identifier.                                                  *)
(***************************************************************************)
AfterParent(n) == n.ID.Timestamp > n.ParentID.Timestamp

Causal(r) ==
  /\ \A k \in 2..Len(r.list) : AfterParent(r.list[k])
  /\ \A key \in DOMAIN r.pendingOrphans :
       \A i \in 1..Len(r.pendingOrphans[key]) : AfterParent(r.pendingOrphans[key][i])

C26_LamportCausality == \A p \in Replicas : Causal(rga[p])

\* A replica holds a node whose parent was created by the other replica,
\* and the other replica has not integrated that node yet.
C26_Witness ==
  \E p \in Replicas : \E q \in Replicas \ {p} : \E k \in 2..Len(rga[p].list) :
    /\ rga[p].list[k].ID.NodeID = p
    /\ rga[p].list[k].ParentID.NodeID = q
    /\ rga[p].list[k].ID \notin DOMAIN rga[q].registry

(***************************************************************************)
(* C27. Self-merge terminates: no state is reachable in which a goroutine  *)
(* inside A.Merge(A) waits for a lock that it holds itself, so the call    *)
(* always goes on to its body and returns; and the body of a self-merge    *)
(* leaves every slot and Value() as they were.                             *)
(***************************************************************************)
SelfBlocked(t) ==
  /\ calls[t].op = "Merge"
  /\ calls[t].c = calls[t].other
  /\ calls[t].at = "RLock"
  /\ mu[calls[t].other].writer = t

SelfMergeNoOp(c) ==
  /\ GCounter_Merge(gc[c], gc[c]) = gc[c]
  /\ GCounter_Value(GCounter_Merge(gc[c], gc[c])) = GCounter_Value(gc[c])

C27_SelfMergeCompletes ==
  /\ \A t \in Threads : ~SelfBlocked(t)
  /\ \A c \in Replicas : SelfMergeNoOp(c)

(***************************************************************************)
(* C28. PNCounter operations are atomic: a Value() call that runs while    *)
(* Increment, Decrement and Merge calls run on the same counter returns a  *)
(* number that was the counter's value (sum of increments - sum of         *)
(* decrements) at some instant between the call and its return; and no     *)
(* state is reachable in which a Merge has changed the increments of a     *)
(* counter while its change to the decrements is still to come.            *)
(***************************************************************************)
ReturnsHeldValue(t) ==
  (calls[t].op = "Value" /\ calls[t].at = "Return") => hist[t].ret \in hist[t].seen

HalfMerged(t) ==
  /\ calls[t].op = "Merge"
  /\ calls[t].at = "nCounter"
  /\ hist[t].half
  /\ GCounter_Merge(pn[calls[t].c].nCounter, pn[calls[t].other].nCounter)
       # pn[calls[t].c].nCounter

C28_PNCounterAtomic ==
  \A t \in Threads : ReturnsHeldValue(t) /\ ~HalfMerged(t)

(***************************************************************************)
(* C29. GCounter frame and monotonicity: on every step no slot of any      *)
(* counter decreases and no Value() decreases; a step changes at most one  *)
(* counter, so Merge(other) leaves other as it was; and an Increment step  *)
(* adds exactly one to the slot of the counter's own replica id and        *)
(* leaves every other slot of that counter unchanged.                      *)
(***************************************************************************)
SlotsGrow(c, d) == \A id \in Replicas : slotOf(d.slots, id) >= slotOf(c.slots, id)

Changed == {p \in Replicas : gc'[p] # gc[p]}

OwnSlotPlusOne(c, d) ==
  /\ slotOf(d.slots, c.nodeID) = slotOf(c.slots, c.nodeID) + 1
  /\ \A id \in Replicas \ {c.nodeID} : slotOf(d.slots, id) = slotOf(c.slots, id)

C29_GCounterFrame ==
  [][/\ \A p \in Replicas :
          /\ SlotsGrow(gc[p], gc'[p])
          /\ GCounter_Value(gc'[p]) >= GCounter_Value(gc[p])
     /\ Cardinality(Changed) <= 1
     /\ hist'.incs = hist.incs + 1 =>
          \E p \in Replicas : Changed = {p} /\ OwnSlotPlusOne(gc[p], gc'[p])]_vars

\* A counter that has incremented after merging: it holds the other
\* replica's count and a count of its own the other has not seen yet.
C29_Witness ==
  \E p \in Replicas : \E q \in Replicas \ {p} :
    /\ slotOf(gc[p].slots, q) = 1
    /\ slotOf(gc[p].slots, p) = 3
    /\ slotOf(gc[q].slots, p) = 2

(***************************************************************************)
(* C30. The PNCounter representation is monotonic: on every step no slot   *)
(* of either component of any counter decreases; an Increment step adds    *)
(* one to the own slot of the increments counter and changes nothing       *)
(* else; a Decrement step adds one to the own slot of the decrements       *)
(* counter and changes nothing else; and a Merge step leaves the receiver  *)
(* with the slot-wise maxima of each component, taken independently.       *)
(***************************************************************************)
PNChanged == {p \in Replicas : pn'[p] # pn[p]}

SlotwiseMax(c, other, d) ==
  \A id \in Replicas : slotOf(d.slots, id) = Max(slotOf(c.slots, id), slotOf(other.slots, id))

IsIncrement(c, d) == OwnSlotPlusOne(c.pCounter, d.pCounter) /\ d.nCounter = c.nCounter

IsDecrement(c, d) == OwnSlotPlusOne(c.nCounter, d.nCounter) /\ d.pCounter = c.pCounter

IsMerge(c, other, d) ==
  /\ SlotwiseMax(c.pCounter, other.pCounter, d.pCounter)
  /\ SlotwiseMax(c.nCounter, other.nCounter, d.nCounter)

C30_PNRepresentationMonotonic ==
  [][/\ \A p \in Replicas :
          /\ SlotsGrow(pn[p].pCounter, pn'[p].pCounter)
          /\ SlotsGrow(pn[p].nCounter, pn'[p].nCounter)
     /\ hist'.incs = hist.incs + 1 =>
          \E p \in Replicas : PNChanged = {p} /\ IsIncrement(pn[p], pn'[p])
     /\ hist'.decs = hist.decs + 1 =>
          \E p \in Replicas : PNChanged = {p} /\ IsDecrement(pn[p], pn'[p])
     /\ (hist'.incs = hist.incs /\ hist'.decs = hist.decs) =>
          \E p \in Replicas : \E q \in Replicas \ {p} :
            /\ PNChanged \subseteq {p}
            /\ IsMerge(pn[p], pn[q], pn'[p])]_vars

\* A counter whose Value() went below zero by merging the other replica's
\* decrements, while none of its slots decreased.
C30_Witness ==
  \E p \in Replicas : \E q \in Replicas \ {p} :
    /\ PNCounter_Value(pn[p]) < 0
    /\ slotOf(pn[p].pCounter.slots, p) = 1
    /\ slotOf(pn[p].nCounter.slots, q) = 2

====
